---- MODULE Spec2Model ----
(***************************************************************************)
(* AzureDevopsConnector (backend/onyx/connectors/azure_devops/connector.py) *)
(* as a state machine: the connector object, the generator returned by     *)
(* load_from_state / poll_source, and the consumer that drives it.         *)
(*                                                                         *)
(* Python values are records [type, s, wall, tz]; a str is the sequence s  *)
(* of its characters, where one date-time body ("1970-01-01T00:00:01") and *)
(* one UTC offset ("+02:00") each count as a single character.  A datetime *)
(* is its wall-clock reading (seconds after 1970-01-01T00:00:00) and its   *)
(* tzinfo ("none" for a naive value).                                      *)
(*                                                                         *)
(* The Azure DevOps SDK is the environment: query_by_wiql returns any of   *)
(* QueryResults or raises, get_work_items returns one record per requested *)
(* id, in request order, with any fields, or raises; building the client   *)
(* in load_credentials succeeds or raises.                                 *)
(***************************************************************************)
EXTENDS Integers, Sequences, FiniteSets, TLC

\* ------------------------------------------------------------- bounds
MaxItems == 3        \* most work items a query matches
MaxBatch == 2        \* largest configured batch_size
MaxClients == 2      \* client objects that can be told apart

\* ------------------------------------------------------- Python values
PyNone == [type |-> "NoneType", s |-> <<>>, wall |-> 0, tz |-> "none"]
PyInt == [type |-> "int", s |-> <<>>, wall |-> 0, tz |-> "none"]
PyStr(s) == [type |-> "str", s |-> s, wall |-> 0, tz |-> "none"]
PyDatetime(wall, tz) == [type |-> "datetime", s |-> <<>>, wall |-> wall, tz |-> tz]

\* isinstance(v, str), isinstance(v, datetime)
IsNotNone(v) == v # PyNone
IsStr(v) == v.type = "str"
IsDatetime(v) == v.type = "datetime"

\* dict.get(key): None when the key is absent
EmptyDict == [k \in {} |-> PyNone]
Get(d, k) == IF k \in DOMAIN d THEN d[k] ELSE PyNone

\* date-time bodies, indexed by wall-clock reading + 1
DateBodies == << "1970-01-01T00:00:00", "1970-01-01T00:00:01",
                 "1970-01-01T00:00:02", "1970-01-01T00:00:03" >>
OffsetChars == {"+00:00", "+02:00"}
TzOfOffset(c) == IF c = "+00:00" THEN "utc" ELSE c
OffsetOfTz(tz) == IF tz = "utc" THEN "+00:00" ELSE tz
IsDateBody(c) == \E w \in DOMAIN DateBodies : DateBodies[w] = c
WallOfBody(c) == (CHOOSE w \in DOMAIN DateBodies : DateBodies[w] = c) - 1

\* str.rstrip("Z")
RECURSIVE RStripZ(_)
RStripZ(s) ==
    IF s # <<>> /\ s[Len(s)] = "Z" THEN RStripZ(SubSeq(s, 1, Len(s) - 1)) ELSE s

\* datetime.fromisoformat(s): [ok |-> FALSE] stands for the ValueError
ParseError == [ok |-> FALSE, dt |-> PyNone]
FromIsoformat(s) ==
    IF Len(s) = 1 /\ IsDateBody(s[1])
    THEN [ok |-> TRUE, dt |-> PyDatetime(WallOfBody(s[1]), "none")]
    ELSE IF Len(s) = 2 /\ IsDateBody(s[1]) /\ s[2] \in OffsetChars
    THEN [ok |-> TRUE, dt |-> PyDatetime(WallOfBody(s[1]), TzOfOffset(s[2]))]
    ELSE ParseError

\* datetime.isoformat()
Isoformat(dt) ==
    <<DateBodies[dt.wall + 1]>> \o
        (IF dt.tz = "none" THEN <<>> ELSE <<OffsetOfTz(dt.tz)>>)

\* datetime.fromtimestamp(t, tz=timezone.utc)
FromTimestampUtc(t) == PyDatetime(t, "utc")

\* datetime.replace(tzinfo=timezone.utc): the reading is kept, the offset set
ReplaceTzinfoIfNaive(dt) == IF dt.tz = "none" THEN [dt EXCEPT !.tz = "utc"] ELSE dt
ReplaceTzinfoUtc(dt) == [dt EXCEPT !.tz = "utc"]

\* truth value of an optional datetime (if start: / if end:): only None is
\* false; a datetime is true whatever instant it holds
TruthyNonZero(v) == v # PyNone /\ v.wall # 0
Truthy(v) == v # PyNone

\* str(item.id) as decimal digits
Digits == << "0", "1", "2", "3", "4", "5", "6", "7", "8", "9" >>
RECURSIVE StrOfInt(_)
StrOfInt(n) ==
    IF n < 10 THEN <<Digits[n + 1]>>
    ELSE StrOfInt(n \div 10) \o <<Digits[(n % 10) + 1]>>

\* ------------------------------------------------ configuration, inputs
Project == "Alpha"
BatchSizes == 1 .. MaxBatch

TokenKey == "azure_devops_pat"
\* credential bundles: key absent, null, a non-string, the empty string, a PAT
CredentialBundles ==
    {EmptyDict} \cup
    [{TokenKey} -> {PyNone, PyInt, PyStr(<<>>), PyStr(<<"p", "a", "t">>)}]

\* epoch seconds handed to poll_source
EpochSeconds == {0, 1}

MissingCredential == "ConnectorMissingCredentialError"
SdkErrors == {"AzureDevOpsServiceError", "ConnectionError"}

\* self.client is None
NoClient == 0

\* ------------------------------------------------ the SDK (environment)
\* result.work_items of query_by_wiql: None, or references in the order the
\* server chose (ascending ids, a rotation, descending ids)
Ascending(n) == [k \in 1 .. n |-> k]
Rotated(n) == [k \in 1 .. n |-> (k % n) + 1]
Descending(n) == [k \in 1 .. n |-> n + 1 - k]
IdLists == UNION {{Ascending(n), Rotated(n), Descending(n)} : n \in 0 .. MaxItems}
QueryResults ==
    {[has_work_items |-> FALSE, work_items |-> <<>>]} \cup
    {[has_work_items |-> TRUE, work_items |-> l] : l \in IdLists}

\* item.fields of a returned work item, as far as System.ChangedDate goes:
\* fields None, key absent, null, an unexpected type, an unparseable string,
\* well-formed strings (zone suffix, offset), parsed datetimes without and
\* with an offset.  Each kind of well-formed value holds its own reading.
ChangedDateKey == "System.ChangedDate"
ChangedDateValues ==
    { PyNone, PyInt,
      PyStr(<<"n", "/", "a">>),
      PyStr(<<DateBodies[2], "Z">>),
      PyStr(<<DateBodies[1], "+02:00">>),
      PyDatetime(2, "none"), PyDatetime(4, "+02:00") }
ItemFields ==
    {[is_none |-> TRUE, dict |-> EmptyDict], [is_none |-> FALSE, dict |-> EmptyDict]}
    \cup {[is_none |-> FALSE, dict |-> d] : d \in [{ChangedDateKey} -> ChangedDateValues]}

\* datetime.utcnow(): a naive reading of the clock
Clock == {3}

\* get_work_items(batch_ids, ...): one record per requested id, in order
WorkItemResponses(batch_ids) ==
    {[k \in 1 .. Len(batch_ids) |-> [id |-> batch_ids[k], fields |-> f[k]]] :
        f \in [1 .. Len(batch_ids) -> ItemFields]}

\* ------------------------------------------ _fetch_work_items, pure parts
\* lines 50-55: the WIQL text, one element per interpolated piece
GeClause(dt) == <<" AND [System.ChangedDate] >= '">> \o Isoformat(dt) \o <<"'">>
LeClause(dt) == <<" AND [System.ChangedDate] <= '">> \o Isoformat(dt) \o <<"'">>
BuildQuery(project, start, end) ==
    << "SELECT [System.Id] FROM WorkItems WHERE [System.TeamProject]='", project, "'" >>
    \o (IF Truthy(start) THEN GeClause(start) ELSE <<>>)
    \o (IF Truthy(end) THEN LeClause(end) ELSE <<>>)
    \o << " ORDER BY [System.ChangedDate] ASC" >>

\* line 48: if not self.client
ClientNeverMissing(c) == FALSE
ClientMissing(c) == c = NoClient

\* line 57: ids = [wi.id for wi in result.work_items] if result.work_items else []
IdsOf(result) ==
    IF result.has_work_items /\ result.work_items # <<>> THEN result.work_items ELSE <<>>

\* line 58: range(0, len(ids), batch_size) has a value at i
LoopHasFullBatch(i, n, b) == i + b <= n
LoopHasNext(i, n, b) == i < n

\* line 59: ids[i : i + batch_size]
Min(a, b) == IF a < b THEN a ELSE b
BatchIdsNoOffset(ids, i, b) == SubSeq(ids, i + 1, Min(b, Len(ids)))
BatchIds(ids, i, b) == SubSeq(ids, i + 1, Min(i + b, Len(ids)))

\* lines 63-74: the update timestamp of one item
Fields(item) == IF item.fields.is_none THEN EmptyDict ELSE item.fields.dict
UpdatedAtDt(updated_at, now) ==
    IF IsStr(updated_at)
    THEN LET p == FromIsoformat(RStripZ(updated_at.s))
         IN  IF p.ok THEN p.dt ELSE PyDatetime(now, "none")
    ELSE IF IsDatetime(updated_at) THEN updated_at
    ELSE PyDatetime(now, "none")

\* lines 75-88: the Document, restricted to id and doc_updated_at
MapItem(item, now) ==
    [id |-> StrOfInt(item.id),
     doc_updated_at |->
        ReplaceTzinfoUtc(UpdatedAtDt(Get(Fields(item), ChangedDateKey), now))]
MapItems(items, nows) == [k \in 1 .. Len(items) |-> MapItem(items[k], nows[k])]

\* line 89: if docs
NeverYield(docs) == FALSE
ShouldYield(docs) == docs # <<>>

\* lines 56, 60: an SDK error is not caught; it leaves the generator as raised
PropagateWrapped(e) == MissingCredential
Propagate(e) == e

\* --------------------------------------------------------------- state
VARIABLES
    batch_size,   \* self.batch_size, fixed at construction
    client,       \* self.client: NoClient, or the identity of the client object
    loaded,       \* some load_credentials call has returned normally
    last,         \* the consumer's last call: operation, token passed, what it
                  \* raised, whether it constructed a Connection
    gen,          \* the generator object of the latest retrieval call
    control,      \* who runs: the consumer, or the generator it resumed
    trace,        \* what the generator has done: resumptions, SDK calls, yields
    fetches,      \* the id lists passed to get_work_items, in call order
    yielded,      \* the document ids of each batch yielded, in yield order
    out           \* the batch the consumer received from its last next()

vars == << batch_size, client, loaded, last, gen, control, trace, fetches, yielded, out >>

NoGen ==
    [pc |-> "none", mode |-> "none", epochs |-> <<>>, start |-> PyNone, end |-> PyNone,
     query |-> <<>>, result_items |-> <<>>, ids |-> <<>>, i |-> 0, items |-> <<>>]

Called(op, pat, raised, built) ==
    [op |-> op, pat |-> pat, raised |-> raised, built |-> built]
Call(op, pat, raised) == Called(op, pat, raised, FALSE)

\* lines 26-30: __init__
Init ==
    /\ batch_size \in BatchSizes
    /\ client = NoClient
    /\ loaded = FALSE
    /\ last = Call("__init__", PyNone, "none")
    /\ gen = NoGen
    /\ control = "consumer"
    /\ trace = <<>>
    /\ fetches = <<>>
    /\ yielded = <<>>
    /\ out = <<>>

\* ------------------------------------------------------ load_credentials
\* lines 33-35: the token is missing or no str: raise before anything is built
ClientReset(c) == NoClient
ClientAfterRejection(c) == c
LoadCredentialsRejected(credentials) ==
    /\ control = "consumer"
    /\ ~IsStr(Get(credentials, TokenKey))
    /\ client' = ClientAfterRejection(client)
    /\ last' = Call("load_credentials", Get(credentials, TokenKey), MissingCredential)
    /\ UNCHANGED << batch_size, loaded, gen,
                    control, trace, fetches, yielded, out >>

\* lines 36-41: a Connection is built and its client stored
\* every call builds a new client object, told apart from the stored one:
\* identities are handed out in turn
NewClient(old) == IF old = NoClient THEN 1 ELSE (old % MaxClients) + 1
LoadCredentialsOk(credentials) ==
    /\ control = "consumer"
    /\ IsStr(Get(credentials, TokenKey))
    /\ client' = NewClient(client)
    /\ loaded' = TRUE
    /\ last' = Called("load_credentials", Get(credentials, TokenKey), "none", TRUE)
    /\ UNCHANGED << batch_size, gen, control, trace, fetches, yielded, out >>

\* lines 36-40: the SDK raises while building the client; line 40 never assigns
ClientCleared(c) == NoClient
ClientAfterSdkError(c) == c
LoadCredentialsSdkError(credentials, e) ==
    /\ control = "consumer"
    /\ IsStr(Get(credentials, TokenKey))
    /\ client' = ClientAfterSdkError(client)
    /\ last' = Called("load_credentials", Get(credentials, TokenKey), Propagate(e), TRUE)
    /\ UNCHANGED << batch_size, loaded, gen, control, trace,
                    fetches, yielded, out >>

\* ------------------------------------- load_from_state, poll_source
\* calling a generator function runs none of its body
NewGen(mode, epochs, start, end) ==
    [NoGen EXCEPT !.pc = "created", !.mode = mode, !.epochs = epochs,
                  !.start = start, !.end = end]

\* lines 92-93
LoadFromState ==
    /\ control = "consumer"
    /\ gen' = NewGen("load", <<>>, PyNone, PyNone)
    /\ last' = Call("load_from_state", PyNone, "none")
    /\ trace' = <<>> /\ fetches' = <<>> /\ yielded' = <<>> /\ out' = <<>>
    /\ UNCHANGED << batch_size, client, loaded, control >>

\* lines 95-98
PollSource(start, end) ==
    /\ control = "consumer"
    /\ gen' = NewGen("poll", <<start, end>>, FromTimestampUtc(start), FromTimestampUtc(end))
    /\ last' = Call("poll_source", PyNone, "none")
    /\ trace' = <<>> /\ fetches' = <<>> /\ yielded' = <<>> /\ out' = <<>>
    /\ UNCHANGED << batch_size, client, loaded, control >>

\* ---------------------------------------------------- the consumer's next()
\* next() on a generator that has not finished: its body runs until it
\* yields, returns or raises
Next_Resume ==
    /\ control = "consumer"
    /\ gen.pc \in {"created", "suspended"}
    /\ control' = "producer"
    /\ trace' = Append(trace, "next")
    /\ last' = Call("next", PyNone, "none")
    /\ out' = <<>>
    /\ UNCHANGED << batch_size, client, loaded, gen,
                    fetches, yielded >>

\* next() on a generator that returned or raised: StopIteration, no code runs
Next_Finished ==
    /\ control = "consumer"
    /\ gen.pc \in {"returned", "raised"}
    /\ last' = Call("next", PyNone, "StopIteration")
    /\ out' = <<>>
    /\ UNCHANGED << batch_size, client, loaded, gen,
                    control, trace, fetches, yielded >>

\* --------------------------------------- _fetch_work_items, the generator
\* line 48-49: no client
GenMissingCredential ==
    /\ control = "producer" /\ gen.pc = "created"
    /\ ClientMissing(client)
    /\ gen' = [gen EXCEPT !.pc = "raised"]
    /\ last' = Call("next", PyNone, MissingCredential)
    /\ control' = "consumer"
    /\ UNCHANGED << batch_size, client, loaded, trace,
                    fetches, yielded, out >>

\* lines 50-56: the query is built and query_by_wiql raises
GenQueryError(e) ==
    /\ control = "producer" /\ gen.pc = "created"
    /\ ~ClientMissing(client)
    /\ trace' = trace \o <<"query", e>>
    /\ gen' = [gen EXCEPT !.pc = "raised", !.query = BuildQuery(Project, gen.start, gen.end)]
    /\ last' = Call("next", PyNone, Propagate(e))
    /\ control' = "consumer"
    /\ UNCHANGED << batch_size, client, loaded, fetches,
                    yielded, out >>

\* lines 50-57: the query is built and executed, the ids extracted
GenQuery(result) ==
    /\ control = "producer" /\ gen.pc = "created"
    /\ ~ClientMissing(client)
    /\ trace' = Append(trace, "query")
    /\ gen' = [gen EXCEPT !.pc = "loop",
                          !.query = BuildQuery(Project, gen.start, gen.end),
                          !.result_items = result.work_items,
                          !.ids = IdsOf(result), !.i = 0]
    /\ UNCHANGED << batch_size, client, loaded, last,
                    control, fetches, yielded, out >>

\* line 58: where range(0, len(ids), batch_size) stands when the loop header
\* runs: at its first value after the query, one step on after a yield
InLoopHeader == control = "producer" /\ gen.pc \in {"loop", "suspended"}
RangeValue == IF gen.pc = "suspended" THEN gen.i + batch_size ELSE gen.i

\* line 58: the range is exhausted, the generator returns (StopIteration)
GenReturn ==
    /\ InLoopHeader
    /\ ~LoopHasNext(RangeValue, Len(gen.ids), batch_size)
    /\ gen' = [gen EXCEPT !.pc = "returned", !.i = RangeValue]
    /\ last' = Call("next", PyNone, "StopIteration")
    /\ control' = "consumer"
    /\ UNCHANGED << batch_size, client, loaded, trace,
                    fetches, yielded, out >>

\* lines 58-60: the next slice is fetched
GenFetch ==
    /\ InLoopHeader
    /\ LoopHasNext(RangeValue, Len(gen.ids), batch_size)
    /\ LET batch_ids == BatchIds(gen.ids, RangeValue, batch_size)
       IN  /\ fetches' = Append(fetches, batch_ids)
           /\ \E items \in WorkItemResponses(batch_ids) :
                gen' = [gen EXCEPT !.pc = "fetched", !.i = RangeValue, !.items = items]
    /\ trace' = Append(trace, "fetch")
    /\ UNCHANGED << batch_size, client, loaded, last,
                    control, yielded, out >>

\* lines 58-60: get_work_items raises
GenFetchError(e) ==
    /\ InLoopHeader
    /\ LoopHasNext(RangeValue, Len(gen.ids), batch_size)
    /\ fetches' = Append(fetches, BatchIds(gen.ids, RangeValue, batch_size))
    /\ trace' = trace \o <<"fetch", e>>
    /\ gen' = [gen EXCEPT !.pc = "raised", !.i = RangeValue]
    /\ last' = Call("next", PyNone, Propagate(e))
    /\ control' = "consumer"
    /\ UNCHANGED << batch_size, client, loaded, yielded, out >>

\* lines 61-90: the items are mapped; a non-empty batch is yielded, an empty
\* one dropped and the loop header runs again.  items and docs are rebound
\* before they are read again, so the frame drops them here.
GenMap ==
    /\ control = "producer" /\ gen.pc = "fetched"
    /\ \E nows \in [1 .. Len(gen.items) -> Clock] :
         LET docs == MapItems(gen.items, nows)
         IN  IF ShouldYield(docs)
             THEN /\ out' = docs
                  /\ yielded' = Append(yielded, [k \in 1 .. Len(docs) |-> docs[k].id])
                  /\ trace' = Append(trace, "yield")
                  /\ gen' = [gen EXCEPT !.pc = "suspended", !.items = <<>>]
                  /\ control' = "consumer"
             ELSE /\ gen' = [gen EXCEPT !.pc = "loop", !.i = gen.i + batch_size,
                                         !.items = <<>>]
                  /\ UNCHANGED << out, yielded, trace, control >>
    /\ UNCHANGED << batch_size, client, loaded, last, fetches >>

\* ------------------------------------------------------ specification
Next ==
    \/ \E c \in CredentialBundles : LoadCredentialsRejected(c)
    \/ \E c \in CredentialBundles : LoadCredentialsOk(c)
    \/ \E c \in CredentialBundles, e \in SdkErrors : LoadCredentialsSdkError(c, e)
    \/ LoadFromState
    \/ \E s, e \in EpochSeconds : PollSource(s, e)
    \/ Next_Resume
    \/ Next_Finished
    \/ GenMissingCredential
    \/ \E e \in SdkErrors : GenQueryError(e)
    \/ \E r \in QueryResults : GenQuery(r)
    \/ GenReturn
    \/ GenFetch
    \/ \E e \in SdkErrors : GenFetchError(e)
    \/ GenMap

Spec == Init /\ [][Next]_vars

\* ---------------------------------------------------------- properties
\* what the properties are stated in
CeilDiv(n, b) == (n + b - 1) \div b
RECURSIVE Flatten(_)
Flatten(ss) == IF ss = <<>> THEN <<>> ELSE Head(ss) \o Flatten(Tail(ss))
CountBefore(s, x, p) == Cardinality({q \in 1 .. p - 1 : s[q] = x})
Contains(s, sub) ==
    \E p \in 0 .. Len(s) - Len(sub) : SubSeq(s, p + 1, p + Len(sub)) = sub
\* the k-th contiguous chunk of b identifiers
Chunk(ids, k, b) ==
    [j \in 1 .. (IF k * b <= Len(ids) THEN b ELSE Len(ids) - (k - 1) * b) |->
        ids[(k - 1) * b + j]]
IdStrings(ids) == [j \in 1 .. Len(ids) |-> StrOfInt(ids[j])]
QueryExecuted == \E p \in 1 .. Len(trace) : trace[p] = "query"
FailedAt(p) == p \in 1 .. Len(trace) /\ trace[p] \in SdkErrors

\* C1: when the generator of load_from_state or poll_source is first resumed
\* while self.client is unset, it raises the missing-credential error and the
\* retrieval is over: no query was executed, no batch fetched, none yielded.
C1_UnauthenticatedRetrievalRaises ==
    [][ (control = "producer" /\ gen.pc = "created" /\ client = NoClient)
        => /\ gen'.pc = "raised"
           /\ last'.op = "next" /\ last'.raised = MissingCredential
           /\ control' = "consumer"
           /\ trace' = <<"next">>
           /\ fetches' = <<>> /\ yielded' = <<>> /\ out' = <<>> ]_vars

C1_Witness ==
    /\ client = NoClient /\ gen.mode = "poll" /\ gen.pc = "raised"
    /\ last.op = "next" /\ last.raised = MissingCredential

\* C2: a load_credentials call whose token is absent, null or of a non-string
\* type raises the missing-credential error without having constructed a
\* Connection or a client.
C2_RejectedBeforeConnection ==
    (last.op = "load_credentials" /\ last.pat.type # "str")
        => (last.raised = MissingCredential /\ ~last.built)

C2_Witness ==
    /\ last.op = "load_credentials" /\ last.pat = PyInt
    /\ last.raised = MissingCredential /\ ~last.built

\* C3: a retrieval that ran to its end over N matched identifiers with batch
\* size B has yielded exactly ceil(N / B) batches; none when the query matched
\* nothing or had no result.  An unfinished one has yielded no more than that.
C3_BatchCount ==
    /\ Len(yielded) <= CeilDiv(Len(gen.result_items), batch_size)
    /\ gen.pc = "returned"
         => Len(yielded) = CeilDiv(Len(gen.result_items), batch_size)

C3_Witness ==
    /\ gen.pc = "returned" /\ batch_size = 2
    /\ Len(gen.result_items) = 3 /\ Len(yielded) = 2

\* C4: the k-th fetch asks for the k-th contiguous chunk of the query's
\* identifiers, and the document ids of the yielded batches, read in sequence,
\* are the query's identifiers in query order: a prefix while the retrieval
\* runs, batch by batch, and the whole list once it has returned.
C4_OrderPreserved ==
    /\ \A k \in 1 .. Len(fetches) :
          fetches[k] = Chunk(gen.result_items, k, batch_size)
    /\ \A k \in 1 .. Len(yielded) :
          yielded[k] = IdStrings(Chunk(gen.result_items, k, batch_size))
    /\ gen.pc = "returned" => Flatten(yielded) = IdStrings(gen.result_items)

C4_Witness ==
    /\ gen.pc = "returned" /\ batch_size = 2
    /\ gen.result_items = <<2, 3, 1>>
    /\ yielded = << <<<<"2">>, <<"3">>>>, <<<<"1">>>> >>

\* C5: every document of a batch handed to the consumer has an update
\* timestamp whose offset is UTC, whatever System.ChangedDate held.
C5_TimestampsUtc ==
    \A k \in 1 .. Len(out) : out[k].doc_updated_at.tz = "utc"

\* reading 4 is held only by the parsed datetime that carries +02:00, reading 3
\* only by the clock (the fallback)
C5_Witness ==
    /\ Len(out) = 2
    /\ out[1].doc_updated_at = PyDatetime(4, "utc")
    /\ out[2].doc_updated_at = PyDatetime(3, "utc")

\* C6: the query a poll executes holds the lower-bound clause with the start
\* instant in UTC and the upper-bound clause with the end instant in UTC,
\* whatever the epoch seconds are (0 included); the query of a full load holds
\* neither clause.
C6_PollBoundsInQuery ==
    QueryExecuted =>
        /\ gen.mode = "poll" =>
             /\ Contains(gen.query, << " AND [System.ChangedDate] >= '",
                                       DateBodies[gen.epochs[1] + 1], "+00:00", "'" >>)
             /\ Contains(gen.query, << " AND [System.ChangedDate] <= '",
                                       DateBodies[gen.epochs[2] + 1], "+00:00", "'" >>)
        /\ gen.mode = "load" =>
             \A p \in 1 .. Len(gen.query) :
                gen.query[p] \notin { " AND [System.ChangedDate] >= '",
                                      " AND [System.ChangedDate] <= '" }

C6_Witness ==
    QueryExecuted /\ gen.mode = "poll" /\ gen.epochs = <<0, 0>>

\* C7, as stated: once a credential load has succeeded, no later operation
\* changes the stored client handle.
C7_HandleNeverChanges == [][ loaded => client' = client ]_vars

\* C7, amended: once a credential load has succeeded, the stored client handle
\* changes in exactly the steps that are a load_credentials call returning
\* normally; no retrieval call and no load_credentials call that raises
\* changes it.
C7_HandleChangesOnlyOnReload ==
    [][ loaded =>
          ((client' # client) <=>
             (last'.op = "load_credentials" /\ last'.raised = "none")) ]_vars

\* the second client object is stored: a second load_credentials call returned
C7_Witness ==
    /\ client = 2 /\ loaded
    /\ last.op = "load_credentials" /\ last.raised = "none"

\* C8: the generator runs only when asked: nothing is done before the first
\* next(), every fetch comes after all earlier fetched batches were yielded
\* and after one more next() than there were yields, and a fetched batch that
\* is not yet yielded exists only between its fetch and its yield.
C8_LazyProducer ==
    /\ trace # <<>> => trace[1] = "next"
    /\ \A p \in 1 .. Len(trace) :
          trace[p] = "fetch" =>
             /\ CountBefore(trace, "yield", p) = CountBefore(trace, "fetch", p)
             /\ CountBefore(trace, "next", p) = CountBefore(trace, "yield", p) + 1
    /\ gen.items # <<>> => (gen.pc = "fetched" /\ control = "producer")
    /\ control = "consumer" => Len(fetches) <= Len(yielded) + 1

C8_Witness ==
    /\ trace = <<"next", "query", "fetch", "yield", "next", "fetch">>
    /\ gen.pc = "fetched" /\ gen.items # <<>>

\* C9: an error of query_by_wiql or get_work_items reaches the caller as it
\* was raised and ends the retrieval: it is the last thing the generator did,
\* the failed call was made once, its batch is not yielded, and the batches
\* yielded before it are the chunks that precede the failed one.
C9_FailurePropagates ==
    /\ \A p \in 1 .. Len(trace) :
          FailedAt(p) =>
             /\ p = Len(trace)
             /\ gen.pc = "raised" /\ control = "consumer"
             /\ (last.op = "next" /\ last.raised # "StopIteration")
                    => last.raised = trace[p]
             /\ trace[p - 1] = "query" => (fetches = <<>> /\ yielded = <<>>)
             /\ trace[p - 1] = "fetch" =>
                   /\ Len(fetches) = Len(yielded) + 1
                   /\ \A k \in 1 .. Len(yielded) :
                         yielded[k] = IdStrings(Chunk(gen.result_items, k, batch_size))
                   /\ fetches[Len(fetches)] =
                         Chunk(gen.result_items, Len(fetches), batch_size)
    /\ (gen.pc = "raised" /\ last.op = "next" /\ last.raised \in SdkErrors)
          => FailedAt(Len(trace))

C9_Witness ==
    /\ FailedAt(Len(trace)) /\ last.raised = trace[Len(trace)]
    /\ Len(fetches) = 2 /\ Len(yielded) = 1

\* C10: the connector holds a client exactly when some load_credentials call
\* has returned normally; a held client is never given up; a load_credentials
\* call that raises and every retrieval step leave the handle as it was; and
\* with a client held the generator does not raise the missing-credential
\* error.
C10_AuthenticationOneWay ==
    [][ /\ (client # NoClient) <=> loaded
        /\ (client' # NoClient) <=> loaded'
        /\ client # NoClient => client' # NoClient
        /\ (last'.op = "load_credentials" /\ last'.raised # "none") => client' = client
        /\ last'.op # "load_credentials" => client' = client
        /\ (control = "producer" /\ gen.pc = "created" /\ loaded)
              => last'.raised # MissingCredential ]_vars

C10_Witness ==
    /\ client # NoClient /\ QueryExecuted
    /\ \E p \in 1 .. Len(trace) : trace[p] = "yield"
    /\ last.op = "load_credentials" /\ last.raised \in SdkErrors

====
